---------------------------- MODULE Spec2Model ----------------------------
(***************************************************************************)
(* Smart water grid simulation: the synthetic series generators and the    *)
(* leak injector of data_generator.py, over networks shaped like the one   *)
(* network_builder.py builds.                                              *)
(*                                                                         *)
(* Timestamps are minutes since 2023-01-01 00:00 (a Sunday).  Real values  *)
(* are exact rationals [n, d] in lowest terms with d > 0.  The two sine    *)
(* terms are evaluated to whole units (Bhaskara's rational approximation). *)
(* A random draw takes one of three levels of its distribution (low,       *)
(* centre, high); the process-wide generator is a stream of levels fixed   *)
(* by the seed, and every stream of the period is a possible seed.         *)
(***************************************************************************)
EXTENDS Integers, Sequences, FiniteSets, TLC

(***************************************************************************)
(* Bounds of the model.                                                    *)
(***************************************************************************)
\* the random stream of a run repeats with this period
StreamPeriod == 2
\* at most this many successive calls of inject_leak_event in one run
MaxInjections == 1

(***************************************************************************)
(* Exact rational arithmetic for the float values of the tables.           *)
(***************************************************************************)
Abs(x) == IF x < 0 THEN -x ELSE x

RECURSIVE Gcd(_, _)
Gcd(a, b) == IF b = 0 THEN a ELSE Gcd(b, a % b)

Rat(n, d) ==
    LET g == Gcd(Abs(n), d)
    IN  [n |-> n \div g, d |-> d \div g]

RInt(k) == [n |-> k, d |-> 1]
RMul(a, b) == Rat(a.n * b.n, a.d * b.d)
RAdd(a, b) == Rat(a.n * b.d + b.n * a.d, a.d * b.d)
RLe(a, b) == a.n * b.d <= b.n * a.d
RLt(a, b) == a.n * b.d < b.n * a.d
\* Python's max(0, x) and min(c, x)
\* faulty variant: the floor at 0 left out
Max0_unclipped(x) == x
Max0(x) == IF x.n > 0 THEN x ELSE RInt(0)
RMin(c, x) == IF RLe(c, x) THEN c ELSE x

(***************************************************************************)
(* pandas Timestamp fields of a timestamp in minutes since 2023-01-01.     *)
(***************************************************************************)
Hour(t) == (t \div 60) % 24
\* Timestamp.weekday(): Monday = 0 ... Sunday = 6; 2023-01-01 is a Sunday
Weekday(t) == (6 + (t \div 1440)) % 7
DayOfYear(t) == (t \div 1440) + 1

\* sin of (num/365 of a full turn), times amp, to whole units
SinTimes(amp, num) ==
    LET deg == ((num * 360) \div 365) % 360
        x   == IF deg <= 180 THEN deg ELSE deg - 180
        p   == x * (180 - x)
        s   == (amp * 4 * p) \div (40500 - p)
    IN  IF deg <= 180 THEN s ELSE -s

(***************************************************************************)
(* pd.date_range(start, end, freq = interval minutes): the time grid.      *)
(***************************************************************************)
\* faulty variant: the grid stops short of an end that lies on it
date_range_open_end(start, end, interval) ==
    IF start > end THEN << >>
    ELSE [k \in 1..((end - start + interval - 1) \div interval) |->
            start + (k - 1) * interval]

\* faulty variant: start = end yields no timestamp
date_range_strict(start, end, interval) ==
    IF start >= end THEN << >>
    ELSE [k \in 1..((end - start) \div interval + 1) |-> start + (k - 1) * interval]

date_range(start, end, interval) ==
    IF start > end THEN << >>
    ELSE [k \in 1..((end - start) \div interval + 1) |-> start + (k - 1) * interval]

\* faulty variant: the two attributes of a sensor swapped
Sensor_swapped(sensor_type, attached_to) ==
    [type |-> "Sensor", sensor_type |-> attached_to, attached_to |-> sensor_type]

(***************************************************************************)
(* The network: a directed graph whose nodes carry attribute records.      *)
(* order is the insertion order of the nodes, which G.nodes iterates in.   *)
(***************************************************************************)
Sensor(sensor_type, attached_to) ==
    [type |-> "Sensor", sensor_type |-> sensor_type, attached_to |-> attached_to]

build_simple_water_network ==
    [order |-> << "R1", "P1", "P2", "J1", "J2", "J3", "J4", "Z1", "Z2", "Z3",
                  "V1", "V2", "S_F_J1", "S_P_J1", "S_F_Z1", "S_P_Z1", "S_F_Z2",
                  "S_P_Z2", "S_F_Z3", "S_P_Z3", "S_L_R1" >>,
     attrs |->
        ("R1" :> [type |-> "Reservoir", capacity |-> 1000000,
                  current_level |-> 900000, sensors |-> << "S_L_R1" >>])
     @@ ("P1" :> [type |-> "PumpStation", status |-> "on", pump_rate |-> 500])
     @@ ("P2" :> [type |-> "PumpStation", status |-> "on", pump_rate |-> 400])
     @@ ("J1" :> [type |-> "Junction", sensors |-> << "S_F_J1", "S_P_J1" >>])
     @@ ("J2" :> [type |-> "Junction"])
     @@ ("J3" :> [type |-> "Junction"])
     @@ ("J4" :> [type |-> "Junction"])
     @@ ("Z1" :> [type |-> "ConsumptionZone", demand_profile |-> "residential",
                  base_demand |-> 100, sensors |-> << "S_F_Z1", "S_P_Z1" >>])
     @@ ("Z2" :> [type |-> "ConsumptionZone", demand_profile |-> "commercial",
                  base_demand |-> 80, sensors |-> << "S_F_Z2", "S_P_Z2" >>])
     @@ ("Z3" :> [type |-> "ConsumptionZone", demand_profile |-> "industrial",
                  base_demand |-> 120, sensors |-> << "S_F_Z3", "S_P_Z3" >>])
     @@ ("V1" :> [type |-> "Valve", status |-> "open"])
     @@ ("V2" :> [type |-> "Valve", status |-> "open"])
     @@ ("S_F_J1" :> Sensor("Flow", "J1"))
     @@ ("S_P_J1" :> Sensor("Pressure", "J1"))
     @@ ("S_F_Z1" :> Sensor("Flow", "Z1"))
     @@ ("S_P_Z1" :> Sensor("Pressure", "Z1"))
     @@ ("S_F_Z2" :> Sensor("Flow", "Z2"))
     @@ ("S_P_Z2" :> Sensor("Pressure", "Z2"))
     @@ ("S_F_Z3" :> Sensor("Flow", "Z3"))
     @@ ("S_P_Z3" :> Sensor("Pressure", "Z3"))
     @@ ("S_L_R1" :> Sensor("Level", "R1")),
     edges |-> { << "R1", "P1" >>, << "R1", "P2" >>, << "P1", "J1" >>,
                 << "P2", "J3" >>, << "J1", "V1" >>, << "V1", "J2" >>,
                 << "J1", "Z1" >>, << "J2", "J4" >>, << "J3", "V2" >>,
                 << "V2", "Z3" >>, << "J4", "Z2" >>, << "J4", "Z3" >> }]

\* Networks of the same schema that put sensors where the built one has none.
\* Flow sensors on junctions with two zones, with no zone, with a zero-demand zone.
JunctionNetwork ==
    [order |-> << "J1", "J2", "J3", "Z1", "Z2", "Z0", "S_F_J1", "S_F_J2", "S_F_J3" >>,
     attrs |->
        ("J1" :> [type |-> "Junction"])
     @@ ("J2" :> [type |-> "Junction"])
     @@ ("J3" :> [type |-> "Junction"])
     @@ ("Z1" :> [type |-> "ConsumptionZone", demand_profile |-> "residential",
                  base_demand |-> 100])
     @@ ("Z2" :> [type |-> "ConsumptionZone", demand_profile |-> "commercial",
                  base_demand |-> 80])
     @@ ("Z0" :> [type |-> "ConsumptionZone", demand_profile |-> "industrial",
                  base_demand |-> 0])
     @@ ("S_F_J1" :> Sensor("Flow", "J1"))
     @@ ("S_F_J2" :> Sensor("Flow", "J2"))
     @@ ("S_F_J3" :> Sensor("Flow", "J3")),
     edges |-> { << "J1", "Z1" >>, << "J1", "Z2" >>, << "J1", "J2" >>,
                 << "J2", "J3" >>, << "J3", "Z0" >> }]

\* Sensors outside the Flow, Pressure and Level rules, after a covered Pressure sensor.
UncoveredNetwork ==
    [order |-> << "R1", "J1", "V1", "S_P_J1", "S_P_V1", "S_P_S1", "S_L_J1",
                  "S_T_J1", "S_F_V1", "S_L_R1" >>,
     attrs |->
        ("R1" :> [type |-> "Reservoir", capacity |-> 1000000, current_level |-> 900000])
     @@ ("J1" :> [type |-> "Junction"])
     @@ ("V1" :> [type |-> "Valve", status |-> "open"])
     @@ ("S_P_J1" :> Sensor("Pressure", "J1"))
     @@ ("S_P_V1" :> Sensor("Pressure", "V1"))
     @@ ("S_P_S1" :> Sensor("Pressure", "S_P_J1"))
     @@ ("S_L_J1" :> Sensor("Level", "J1"))
     @@ ("S_T_J1" :> Sensor("Temperature", "J1"))
     @@ ("S_F_V1" :> Sensor("Flow", "V1"))
     @@ ("S_L_R1" :> Sensor("Level", "R1")),
     edges |-> { << "R1", "J1" >>, << "J1", "V1" >> }]

\* The same kind of sensor first in the node order.
ValveFirstNetwork ==
    [order |-> << "J1", "V1", "S_P_V1", "S_P_J1" >>,
     attrs |->
        ("J1" :> [type |-> "Junction"])
     @@ ("V1" :> [type |-> "Valve", status |-> "open"])
     @@ ("S_P_V1" :> Sensor("Pressure", "V1"))
     @@ ("S_P_J1" :> Sensor("Pressure", "J1")),
     edges |-> { << "J1", "V1" >> }]

\* One reservoir and its level sensor.
ReservoirNetwork ==
    [order |-> << "R1", "S_L_R1" >>,
     attrs |->
        ("R1" :> [type |-> "Reservoir", capacity |-> 1000000, current_level |-> 900000])
     @@ ("S_L_R1" :> Sensor("Level", "R1")),
     edges |-> { }]

Nodes(G) == DOMAIN G.attrs

\* [node for node, attrs in network.nodes(data=True) if attrs.get('type') == t]
NodesOfType(G, t) == SelectSeq(G.order, LAMBDA n : G.attrs[n].type = t)

\* network.successors(n)
successors(G, n) == {e[2] : e \in {x \in G.edges : x[1] = n}}
predecessors(G, n) == {e[1] : e \in {x \in G.edges : x[2] = n}}

\* nx.ancestors(G, source): the nodes with a directed path to source, found
\* by a breadth-first search over the reversed edges; source itself excluded.
RECURSIVE bfs_reverse(_, _, _)
bfs_reverse(G, seen, frontier) ==
    IF frontier = {} THEN seen
    ELSE LET next == (UNION {predecessors(G, n) : n \in frontier}) \ seen
         IN  bfs_reverse(G, seen \cup next, next)

ancestors(G, source) == bfs_reverse(G, {source}, {source}) \ {source}

(***************************************************************************)
(* Random draws.  np.random.normal(0, sigma) at level k is 100 sigma below *)
(* the centre, the centre, or 100 sigma above it.                          *)
(* np.random.uniform(lo, hi) at level k is lo, the midpoint, or hi.        *)
(***************************************************************************)
Levels == {-1, 0, 1}
Streams == [1..StreamPeriod -> Levels]
normal(sigma, k) == RMul(RInt(100 * k), sigma)
uniform(lo, hi, k) ==
    LET mid == RMul(RAdd(lo, hi), Rat(1, 2))
    IN  IF k < 0 THEN lo ELSE IF k > 0 THEN hi ELSE mid

(***************************************************************************)
(* generate_sensor_data: the value of one sensor at one timestamp.         *)
(***************************************************************************)
RECURSIVE SumBaseDemand(_, _)
SumBaseDemand(G, zones) ==
    IF zones = {} THEN 0
    ELSE LET z == CHOOSE x \in zones : TRUE
         IN  G.attrs[z].base_demand + SumBaseDemand(G, zones \ {z})

\* lines 33-36: downstream_demand of a junction
downstream_demand(G, node) ==
    SumBaseDemand(G, {n \in successors(G, node) : G.attrs[n].type = "ConsumptionZone"})

\* faulty variant: a zero sum is kept instead of the default
flow_base_zero_sum(G, node) ==
    LET a == G.attrs[node]
    IN  IF a.type = "ConsumptionZone" THEN a.base_demand
        ELSE IF a.type = "Junction"
             THEN (IF downstream_demand(G, node) >= 0
                   THEN downstream_demand(G, node) ELSE 150)
             ELSE (IF "pump_rate" \in DOMAIN a THEN a.pump_rate ELSE 0)

\* lines 29-39: base_flow by the type of the node the sensor is attached to
flow_base(G, node) ==
    LET a == G.attrs[node]
    IN  IF a.type = "ConsumptionZone" THEN a.base_demand
        ELSE IF a.type = "Junction"
             THEN (IF downstream_demand(G, node) > 0
                   THEN downstream_demand(G, node) ELSE 150)
             ELSE (IF "pump_rate" \in DOMAIN a THEN a.pump_rate ELSE 0)

\* lines 41-51: pattern_factor by hour bucket, k the noise draw
pattern_factor(hour, k) ==
    IF 0 <= hour /\ hour < 6 THEN RAdd(Rat(6, 10), normal(Rat(5, 100), k))
    ELSE IF 6 <= hour /\ hour < 10 THEN RAdd(Rat(12, 10), normal(Rat(1, 10), k))
    ELSE IF 10 <= hour /\ hour < 17 THEN RAdd(Rat(9, 10), normal(Rat(8, 100), k))
    ELSE IF 17 <= hour /\ hour < 22 THEN RAdd(Rat(13, 10), normal(Rat(1, 10), k))
    ELSE RAdd(Rat(7, 10), normal(Rat(5, 100), k))

\* line 53
flow_value(bf, t, k1, k2) ==
    Max0(RAdd(RMul(RInt(bf), pattern_factor(Hour(t), k1)), normal(RInt(5), k2)))

\* lines 56-63: base_pressure after the if/elif chain, which has no else:
\* for any other type the local keeps what an earlier iteration left in it
\* (<< >> when it was never assigned)
pressure_base(type, previous) ==
    IF type = "ConsumptionZone" THEN << 400000 >>
    ELSE IF type = "Junction" THEN << 500000 >>
    ELSE IF type = "PumpStation" THEN << 600000 >>
    ELSE IF type = "Reservoir" THEN << 200000 >>
    ELSE previous

\* line 65
pressure_value(bp, k) == Max0(RAdd(RInt(bp), normal(RInt(10000), k)))

\* faulty variant: the level is not capped at the capacity
level_value_no_cap(G, attached_to_node, t, k) ==
    IF attached_to_node = "R1"
    THEN Max0(RAdd(RInt(G.attrs["R1"].current_level + SinTimes(50000, DayOfYear(t))),
                   normal(RInt(10000), k)))
    ELSE RInt(0)

\* lines 68-72; any other Level sensor keeps the 0.0 of line 26
level_value(G, attached_to_node, t, k) ==
    IF attached_to_node = "R1"
    THEN LET value == RAdd(RInt(G.attrs["R1"].current_level
                                + SinTimes(50000, DayOfYear(t))),
                           normal(RInt(10000), k))
         IN  Max0(RMin(RInt(G.attrs["R1"].capacity), value))
    ELSE RInt(0)

(***************************************************************************)
(* The run: network -> generate_sensor_data -> generate_consumption_data   *)
(* -> inject_leak_event, each a loop taking one step per iteration.        *)
(***************************************************************************)
VARIABLES
    network,            \* G: built once, read thereafter
    gen_start, gen_end, \* start_time, end_time of the generators
    interval,           \* sampling_interval_minutes
    pc,                 \* where the run is
    err,                \* the exception that ended the run, "" if none
    time_index,         \* the generator's time grid
    data,               \* the generator's list of records
    pos,                \* inner-loop iterations completed by the running loop
    base_flow,          \* locals of generate_sensor_data: << >> while unbound
    base_pressure,
    daily_factor,       \* local of generate_consumption_data
    sensor_df,          \* the sensor table
    consumption_df,     \* the consumption table
    leak,               \* arguments of the running inject_leak_event call
    upstream_nodes,     \* its local
    rows,               \* the rows iterrows() walks: the table as the call began
    injections,         \* completed calls of inject_leak_event
    render,             \* the last call of visualize_water_network_dynamic
    rng                 \* np.random: the stream of the seed and the draws taken

vars == << network, gen_start, gen_end, interval, pc, err, time_index, data, pos,
           base_flow, base_pressure, daily_factor, sensor_df, consumption_df,
           leak, upstream_nodes, rows, injections, render, rng >>

run_args == << network, gen_start, gen_end, interval >>
gen_locals == << base_flow, base_pressure, daily_factor >>
inject_state == << leak, upstream_nodes, rows, injections >>

NoLeak == [leak_node_id |-> "", start_time |-> 0, end_time |-> 0,
           severity_factor |-> RInt(0)]

Scenario(G, start, end, minutes) ==
    [network |-> G, start |-> start, end |-> end, interval |-> minutes]

\* grids of three timestamps, of two (end off the grid, across midnight),
\* of one (start = end) and of none (start > end)
Grids == { << 0, 120, 60 >>, << 1410, 1480, 45 >>, << 60, 60, 60 >>, << 60, 0, 60 >> }

Scenarios ==
    { Scenario(G, g[1], g[2], g[3]) :
        G \in { build_simple_water_network, JunctionNetwork, UncoveredNetwork,
                ValveFirstNetwork },
        g \in Grids }

NoRender == [timestamp |-> 0, current_sensor_data |-> << >>, drawn |-> FALSE]

\* the run of a scenario of S under a seed whose stream is one of `streams`
InitOf(S, streams) ==
    /\ \E sc \in S :
        /\ network = sc.network
        /\ gen_start = sc.start
        /\ gen_end = sc.end
        /\ interval = sc.interval
    /\ pc = "built"
    /\ err = ""
    /\ time_index = << >>
    /\ data = << >>
    /\ pos = 0
    /\ base_flow = << >>
    /\ base_pressure = << >>
    /\ daily_factor = RInt(1)
    /\ sensor_df = << >>
    /\ consumption_df = << >>
    /\ leak = NoLeak
    /\ upstream_nodes = {}
    /\ rows = << >>
    /\ injections = 0
    /\ render = NoRender
    /\ \E stream \in streams : rng = [stream |-> stream, taken |-> 0]

InitWith(S) == InitOf(S, Streams)

Init == InitWith(Scenarios)

\* the i-th draw from generator state g (i = 1, 2, ...) and g after n draws
DrawOf(g, i) == g.stream[((g.taken + i - 1) % StreamPeriod) + 1]
DrawnOf(g, n) == [g EXCEPT !.taken = (g.taken + n) % StreamPeriod]

\* line 19
sensor_nodes == NodesOfType(network, "Sensor")

\* the timestamp and the entity of the inner-loop iteration after `done` ones
LoopTimestamp(done, entities) == time_index[(done \div Len(entities)) + 1]
LoopEntity(done, entities) == entities[(done % Len(entities)) + 1]
LoopLength(entities) == Len(time_index) * Len(entities)

\* lines 15-19
SensorCall ==
    /\ pc = "built"
    /\ pc' = "generate_sensor_data"
    /\ time_index' = date_range(gen_start, gen_end, interval)
    /\ data' = << >>
    /\ pos' = 0
    /\ UNCHANGED << run_args, render, err, gen_locals, sensor_df, consumption_df,
                    inject_state, rng >>

Record(timestamp, sensor_id, attached_to, sensor_type, value) ==
    [timestamp |-> timestamp, sensor_id |-> sensor_id, attached_to |-> attached_to,
     sensor_type |-> sensor_type, value |-> value]

\* what the loop of generate_sensor_data reads and writes
SensorLoop ==
    [pc |-> pc, err |-> err, data |-> data, pos |-> pos, base_flow |-> base_flow,
     base_pressure |-> base_pressure, rng |-> rng]

\* lines 23-80: one iteration of the inner loop, if the loop is still running
sensor_row(st) ==
    IF st.pc # "generate_sensor_data" \/ st.pos >= LoopLength(sensor_nodes) THEN st
    ELSE
    LET timestamp == LoopTimestamp(st.pos, sensor_nodes)
        sensor_id == LoopEntity(st.pos, sensor_nodes)
        sensor_type == network.attrs[sensor_id].sensor_type
        attached_to_node == network.attrs[sensor_id].attached_to
        next == [st EXCEPT !.pos = st.pos + 1]
    IN  IF sensor_type = "Flow"
        THEN LET bf == flow_base(network, attached_to_node)
             IN  [next EXCEPT
                    !.base_flow = << bf >>,
                    !.data = Append(st.data, Record(timestamp, sensor_id,
                                attached_to_node, sensor_type,
                                flow_value(bf, timestamp, DrawOf(st.rng, 1),
                                           DrawOf(st.rng, 2)))),
                    !.rng = DrawnOf(st.rng, 2)]
        ELSE IF sensor_type = "Pressure"
        THEN LET bp == pressure_base(network.attrs[attached_to_node].type,
                                     st.base_pressure)
             IN  IF bp = << >>
                 THEN [next EXCEPT !.base_pressure = bp, !.pc = "raised",
                                   !.err = "UnboundLocalError"]
                 ELSE [next EXCEPT
                        !.base_pressure = bp,
                        !.data = Append(st.data, Record(timestamp, sensor_id,
                                    attached_to_node, sensor_type,
                                    pressure_value(bp[1], DrawOf(st.rng, 1)))),
                        !.rng = DrawnOf(st.rng, 1)]
        ELSE IF sensor_type = "Level"
        THEN [next EXCEPT
                !.data = Append(st.data, Record(timestamp, sensor_id,
                            attached_to_node, sensor_type,
                            level_value(network, attached_to_node, timestamp,
                                        DrawOf(st.rng, 1)))),
                !.rng = IF attached_to_node = "R1" THEN DrawnOf(st.rng, 1)
                        ELSE st.rng]
        ELSE [next EXCEPT
                !.data = Append(st.data, Record(timestamp, sensor_id,
                            attached_to_node, sensor_type, RInt(0)))]

\* lines 22-80: n iterations of the loop, one after the other
RECURSIVE sensor_rows(_, _)
sensor_rows(st, n) ==
    IF n = 0 THEN st
    ELSE IF n = 1 THEN sensor_row(st)
    ELSE LET half == sensor_rows(st, n \div 2)
         IN  IF half.pos >= st.pos THEN sensor_rows(half, n - n \div 2) ELSE half

\* the loop of generate_sensor_data moves on to st
SensorLoopTo(st) ==
    /\ pc' = st.pc
    /\ err' = st.err
    /\ data' = st.data
    /\ pos' = st.pos
    /\ base_flow' = st.base_flow
    /\ base_pressure' = st.base_pressure
    /\ rng' = st.rng
    /\ UNCHANGED << run_args, render, time_index, daily_factor, sensor_df,
                    consumption_df, inject_state >>

\* lines 22-80: one iteration of the inner loop
SensorRow ==
    /\ pc = "generate_sensor_data"
    /\ pos < LoopLength(sensor_nodes)
    /\ SensorLoopTo(sensor_row(SensorLoop))

\* lines 21-80: one iteration of the outer loop, every sensor at one timestamp
SensorTimestamp ==
    /\ pc = "generate_sensor_data"
    /\ pos < LoopLength(sensor_nodes)
    /\ SensorLoopTo(sensor_rows(SensorLoop, Len(sensor_nodes)))

\* line 82
SensorReturn ==
    /\ pc = "generate_sensor_data"
    /\ pos = LoopLength(sensor_nodes)
    /\ sensor_df' = data
    /\ pc' = "sensor_done"
    /\ UNCHANGED << run_args, render, err, time_index, data, pos, gen_locals, consumption_df,
                    inject_state, rng >>

NextSensor == SensorCall \/ SensorRow \/ SensorReturn

(***************************************************************************)
(* generate_consumption_data                                               *)
(***************************************************************************)
\* line 91
consumption_zones == NodesOfType(network, "ConsumptionZone")

\* faulty variant: the residential evening bucket closed at 21h
hourly_factor_late_evening(demand_profile, hour) ==
    IF demand_profile = "residential"
    THEN (IF 0 <= hour /\ hour < 6 THEN Rat(5, 10)
          ELSE IF 6 <= hour /\ hour < 9 THEN Rat(15, 10)
          ELSE IF 9 <= hour /\ hour < 17 THEN Rat(8, 10)
          ELSE IF 17 <= hour /\ hour <= 21 THEN Rat(18, 10)
          ELSE Rat(7, 10))
    ELSE IF demand_profile = "commercial"
    THEN (IF 0 <= hour /\ hour < 8 THEN Rat(2, 10)
          ELSE IF 8 <= hour /\ hour < 18 THEN Rat(15, 10)
          ELSE Rat(4, 10))
    ELSE IF demand_profile = "industrial"
    THEN (IF (0 <= hour /\ hour < 7) \/ hour >= 22 THEN Rat(7, 10)
          ELSE Rat(13, 10))
    ELSE RInt(1)

\* lines 99-112: the hour bucket's factor of a demand profile
hourly_factor(demand_profile, hour) ==
    IF demand_profile = "residential"
    THEN (IF 0 <= hour /\ hour < 6 THEN Rat(5, 10)
          ELSE IF 6 <= hour /\ hour < 9 THEN Rat(15, 10)
          ELSE IF 9 <= hour /\ hour < 17 THEN Rat(8, 10)
          ELSE IF 17 <= hour /\ hour < 21 THEN Rat(18, 10)
          ELSE Rat(7, 10))
    ELSE IF demand_profile = "commercial"
    THEN (IF 0 <= hour /\ hour < 8 THEN Rat(2, 10)
          ELSE IF 8 <= hour /\ hour < 18 THEN Rat(15, 10)
          ELSE Rat(4, 10))
    ELSE IF demand_profile = "industrial"
    THEN (IF (0 <= hour /\ hour < 7) \/ hour >= 22 THEN Rat(7, 10)
          ELSE Rat(13, 10))
    ELSE RInt(1)

\* lines 114-118: daily_factor after the weekend adjustment
weekend_factor(demand_profile, weekday, factor) ==
    IF weekday >= 5
    THEN (IF demand_profile = "commercial" \/ demand_profile = "industrial"
          THEN RMul(factor, Rat(7, 10))
          ELSE IF demand_profile = "residential"
          THEN RMul(factor, Rat(11, 10))
          ELSE factor)
    ELSE factor

\* lines 120-121
seasonal_factor(t) == Rat(1000 + SinTimes(200, DayOfYear(t) - 170), 1000)

\* line 123
consumption_value(base_demand, factor, t, k) ==
    Max0(RAdd(RMul(RMul(RInt(base_demand), factor), seasonal_factor(t)),
              normal(RInt(2), k)))

\* lines 88-91
ConsumptionCall ==
    /\ pc = "sensor_done"
    /\ pc' = "generate_consumption_data"
    /\ time_index' = date_range(gen_start, gen_end, interval)
    /\ data' = << >>
    /\ pos' = 0
    /\ UNCHANGED << run_args, render, err, gen_locals, sensor_df, consumption_df,
                    inject_state, rng >>

\* what the loop of generate_consumption_data reads and writes
ConsumptionLoop ==
    [data |-> data, pos |-> pos, daily_factor |-> daily_factor, rng |-> rng]

\* lines 95-129: one iteration of the inner loop, if the loop is still running
consumption_row(st) ==
    IF st.pos >= LoopLength(consumption_zones) THEN st
    ELSE
    LET timestamp == LoopTimestamp(st.pos, consumption_zones)
        zone_id == LoopEntity(st.pos, consumption_zones)
        base_demand == network.attrs[zone_id].base_demand
        demand_profile == network.attrs[zone_id].demand_profile
        factor == weekend_factor(demand_profile, Weekday(timestamp),
                                 hourly_factor(demand_profile, Hour(timestamp)))
    IN  [st EXCEPT
           !.daily_factor = factor,
           !.data = Append(st.data,
               [timestamp |-> timestamp, zone_id |-> zone_id,
                consumption_liters_per_sec |->
                   consumption_value(base_demand, factor, timestamp,
                                     DrawOf(st.rng, 1))]),
           !.rng = DrawnOf(st.rng, 1),
           !.pos = st.pos + 1]

\* lines 94-129: n iterations of the loop, one after the other
RECURSIVE consumption_rows(_, _)
consumption_rows(st, n) ==
    IF n = 0 THEN st
    ELSE IF n = 1 THEN consumption_row(st)
    ELSE LET half == consumption_rows(st, n \div 2)
         IN  IF half.pos >= st.pos THEN consumption_rows(half, n - n \div 2) ELSE half

\* the loop of generate_consumption_data moves on to st
ConsumptionLoopTo(st) ==
    /\ data' = st.data
    /\ pos' = st.pos
    /\ daily_factor' = st.daily_factor
    /\ rng' = st.rng
    /\ UNCHANGED << run_args, render, pc, err, time_index, base_flow, base_pressure,
                    sensor_df, consumption_df, inject_state >>

\* lines 94-129: one iteration of the inner loop
ConsumptionRow ==
    /\ pc = "generate_consumption_data"
    /\ pos < LoopLength(consumption_zones)
    /\ ConsumptionLoopTo(consumption_row(ConsumptionLoop))

\* lines 93-129: the whole of the two loops
ConsumptionRows ==
    /\ pc = "generate_consumption_data"
    /\ pos < LoopLength(consumption_zones)
    /\ ConsumptionLoopTo(consumption_rows(ConsumptionLoop,
                                          LoopLength(consumption_zones)))

\* line 130
ConsumptionReturn ==
    /\ pc = "generate_consumption_data"
    /\ pos = LoopLength(consumption_zones)
    /\ consumption_df' = data
    /\ pc' = "consumption_done"
    /\ UNCHANGED << run_args, render, err, time_index, data, pos, gen_locals, sensor_df,
                    inject_state, rng >>

NextGenerate ==
    \/ NextSensor
    \/ ConsumptionCall
    \/ ConsumptionRow
    \/ ConsumptionReturn

\* faulty variant: the record list outlives the call
SensorCallAgain_shared_list ==
    /\ pc = "sensor_done"
    /\ pc' = "generate_sensor_data"
    /\ time_index' = date_range(gen_start, gen_end, interval)
    /\ pos' = 0
    /\ base_flow' = << >>
    /\ base_pressure' = << >>
    /\ UNCHANGED << run_args, render, err, data, daily_factor, sensor_df,
                    consumption_df, inject_state, rng >>

\* lines 15-19, for a further call with the same arguments: the locals are
\* new, the table returned before stays with the caller
SensorCallAgain ==
    /\ pc = "sensor_done"
    /\ pc' = "generate_sensor_data"
    /\ time_index' = date_range(gen_start, gen_end, interval)
    /\ data' = << >>
    /\ pos' = 0
    /\ base_flow' = << >>
    /\ base_pressure' = << >>
    /\ UNCHANGED << run_args, render, err, daily_factor, sensor_df,
                    consumption_df, inject_state, rng >>

\* lines 88-91, for a further call with the same arguments
ConsumptionCallAgain ==
    /\ pc = "consumption_done"
    /\ pc' = "generate_consumption_data"
    /\ time_index' = date_range(gen_start, gen_end, interval)
    /\ data' = << >>
    /\ pos' = 0
    /\ daily_factor' = RInt(1)
    /\ UNCHANGED << run_args, render, err, base_flow, base_pressure, sensor_df,
                    consumption_df, inject_state, rng >>

(***************************************************************************)
(* inject_leak_event                                                       *)
(***************************************************************************)
\* the arguments the injector is called with
LeakNodes == { "J1", "Z3", "S_L_R1", "X9" }
\* [start_time, end_time]: one grid point, a range ending on a grid point, none
LeakWindows == { << 60, 60 >>, << 30, 1410 >>, << 120, 60 >> }
Severities == { RInt(0), Rat(3, 10), RInt(1) }

\* faulty variant: the window never ends
in_window_no_end(row, start_time, end_time) == start_time <= row.timestamp

\* line 145
in_window(row, start_time, end_time) ==
    start_time <= row.timestamp /\ row.timestamp <= end_time

\* faulty variant: the leak node's own sensors are skipped
near_leak_upstream_only(row, upstream, leak_node_id) == row.attached_to \in upstream

\* lines 146, 149: row['attached_to'] in upstream_nodes or == leak_node_id
near_leak(row, upstream, leak_node_id) ==
    row.attached_to \in upstream \/ row.attached_to = leak_node_id

\* lines 147, 150: sensor_df.loc[sensor_df.index == name, 'value'] = value,
\* the index of a generated table being 0, 1, 2, ...
set_value(df, name, value) ==
    [r \in DOMAIN df |-> IF r - 1 = name THEN [df[r] EXCEPT !.value = value]
                         ELSE df[r]]

\* line 147 and line 150: the factor a value is multiplied by
flow_scale(severity_factor, k) ==
    RAdd(RInt(1), RMul(severity_factor, uniform(Rat(8, 10), Rat(12, 10), k)))
pressure_scale(severity_factor, k) ==
    RAdd(RInt(1), RMul(RMul(RInt(-1), severity_factor),
                       uniform(Rat(8, 10), Rat(12, 10), k)))

\* faulty variant: no membership check, an unknown node has no ancestors
has_node_unchecked(G, n) == TRUE

\* nx.ancestors' first check: source in G
has_node(G, n) == n \in Nodes(G)

\* lines 140-144 for one choice of the arguments: nx.ancestors raises
\* NetworkXError for a node not in the graph
InjectBegin(node, start_time, end_time, severity) ==
    /\ leak' = [leak_node_id |-> node, start_time |-> start_time,
                end_time |-> end_time, severity_factor |-> severity]
    /\ IF has_node(network, node)
       THEN /\ upstream_nodes' = ancestors(network, node)
            /\ rows' = sensor_df
            /\ pos' = 0
            /\ pc' = "inject_leak_event"
            /\ UNCHANGED err
       ELSE /\ pc' = "raised"
            /\ err' = "NetworkXError"
            /\ UNCHANGED << upstream_nodes, rows, pos >>
    /\ UNCHANGED << run_args, render, time_index, data, gen_locals, sensor_df,
                    consumption_df, injections, rng >>

\* a call of inject_leak_event on the table generated or already injected
InjectCall ==
    /\ pc \in { "consumption_done", "injected" }
    /\ injections < MaxInjections
    /\ \E node \in LeakNodes, w \in LeakWindows, severity \in Severities :
        InjectBegin(node, w[1], w[2], severity)

\* what the loop of inject_leak_event reads and writes
InjectLoop == [sensor_df |-> sensor_df, pos |-> pos, rng |-> rng]

\* lines 145-150: one iteration of the loop over the rows, if any is left
inject_row(st) ==
    IF st.pos >= Len(rows) THEN st
    ELSE
    LET row == rows[st.pos + 1]
        name == st.pos
        near == near_leak(row, upstream_nodes, leak.leak_node_id)
        hit == in_window(row, leak.start_time, leak.end_time) /\ near
        flow == hit /\ row.sensor_type = "Flow"
        pressure == hit /\ row.sensor_type = "Pressure"
        df1 == IF flow
               THEN set_value(st.sensor_df, name,
                      RMul(row.value,
                           flow_scale(leak.severity_factor, DrawOf(st.rng, 1))))
               ELSE st.sensor_df
        n1 == IF flow THEN 1 ELSE 0
        df2 == IF pressure
               THEN set_value(df1, name,
                      RMul(row.value,
                           pressure_scale(leak.severity_factor,
                                          DrawOf(st.rng, n1 + 1))))
               ELSE df1
        n2 == IF pressure THEN n1 + 1 ELSE n1
    IN  [sensor_df |-> df2, pos |-> st.pos + 1, rng |-> DrawnOf(st.rng, n2)]

\* lines 144-150: n iterations of the loop, one after the other
RECURSIVE inject_rows(_, _)
inject_rows(st, n) ==
    IF n = 0 THEN st
    ELSE IF n = 1 THEN inject_row(st)
    ELSE LET half == inject_rows(st, n \div 2)
         IN  IF half.pos >= st.pos THEN inject_rows(half, n - n \div 2) ELSE half

\* the loop of inject_leak_event moves on to st
InjectLoopTo(st) ==
    /\ sensor_df' = st.sensor_df
    /\ pos' = st.pos
    /\ rng' = st.rng
    /\ UNCHANGED << run_args, render, pc, err, time_index, data, gen_locals,
                    consumption_df, inject_state >>

\* lines 144-150: one iteration of the loop over the rows
InjectRow ==
    /\ pc = "inject_leak_event"
    /\ pos < Len(rows)
    /\ InjectLoopTo(inject_row(InjectLoop))

\* lines 144-150: the whole loop over the rows
InjectRows ==
    /\ pc = "inject_leak_event"
    /\ pos < Len(rows)
    /\ InjectLoopTo(inject_rows(InjectLoop, Len(rows)))

\* line 152
InjectReturn ==
    /\ pc = "inject_leak_event"
    /\ pos = Len(rows)
    /\ pc' = "injected"
    /\ injections' = injections + 1
    /\ leak' = NoLeak
    /\ upstream_nodes' = {}
    /\ rows' = << >>
    /\ UNCHANGED << run_args, render, err, time_index, data, pos, gen_locals, sensor_df,
                    consumption_df, rng >>

(***************************************************************************)
(* visualize_water_network_dynamic: it reads the network and the table and *)
(* draws; what it selects from the table is kept in `render`.              *)
(***************************************************************************)
\* the timestamps a rendering is asked for: on three of the grids, on none
RenderTimes == { 60, 100 }

\* the columns of a table; pd.DataFrame(data) of an empty list (line 82 of
\* data_generator.py) has no rows and no columns
columns(df) == IF df = << >> THEN {} ELSE DOMAIN df[1]

\* line 29: the rows at the timestamp
rows_at(df, timestamp) == SelectSeq(df, LAMBDA row : row.timestamp = timestamp)

\* line 33: the labels argsort()[:1] can yield, the rows at the least distance
\* from the timestamp (which of them comes first is left to the sort)
nearest_labels(df, timestamp) ==
    LET distances == { Abs(df[r].timestamp - timestamp) : r \in DOMAIN df }
    IN  { r \in DOMAIN df :
            \A d \in distances : Abs(df[r].timestamp - timestamp) <= d }

\* lines 29-37 and the drawing of lines 39-193 for one timestamp
Render(timestamp) ==
    /\ IF "timestamp" \notin columns(sensor_df)
       THEN /\ pc' = "raised"
            /\ err' = "KeyError"
            /\ UNCHANGED render
       ELSE /\ LET current_sensor_data == rows_at(sensor_df, timestamp)
               IN  IF current_sensor_data # << >>
                   THEN render' = [timestamp |-> timestamp,
                                   current_sensor_data |-> current_sensor_data,
                                   drawn |-> TRUE]
                   ELSE IF nearest_labels(sensor_df, timestamp) = {}
                   THEN render' = [timestamp |-> timestamp,
                                   current_sensor_data |-> << >>,
                                   drawn |-> FALSE]
                   ELSE \E idx \in nearest_labels(sensor_df, timestamp) :
                           render' = [timestamp |-> timestamp,
                                      current_sensor_data |-> << sensor_df[idx] >>,
                                      drawn |-> TRUE]
            /\ pc' = "rendered"
            /\ UNCHANGED err
    /\ UNCHANGED << run_args, time_index, data, pos, gen_locals, sensor_df,
                    consumption_df, inject_state, rng >>

\* a rendering of the table the injector returned
RenderCall ==
    /\ pc \in { "injected", "rendered" }
    /\ \E timestamp \in RenderTimes : Render(timestamp)

\* the generators and the injector
Next ==
    \/ NextGenerate
    \/ InjectCall
    \/ InjectRow
    \/ InjectReturn

Spec == Init /\ [][Next]_vars

\* the generators, the injector and the renderer
NextRun ==
    \/ Next
    \/ RenderCall

(***************************************************************************)
(* One day of hourly level readings of a single reservoir: sensor          *)
(* generation alone, from three starting times of the year.                *)
(***************************************************************************)
DayScenarios ==
    { Scenario(ReservoirNetwork, start, start + 1440, 60) :
        start \in { 0, 600, 128160 } }

SpecDay == InitWith(DayScenarios) /\ [][NextSensor]_vars

(***************************************************************************)
(* The built network sampled at one timestamp, for every hour of the week  *)
(* of 2023-01-01: both generators.                                         *)
(***************************************************************************)
HourScenarios ==
    { Scenario(build_simple_water_network, 60 * h, 60 * h, 60) : h \in 0..167 }

SpecHours == InitWith(HourScenarios) /\ [][NextGenerate]_vars

(***************************************************************************)
(* Each generator called again and again with the same arguments, every    *)
(* noise draw being zero.                                                  *)
(***************************************************************************)
ZeroStreams == { [i \in 1..StreamPeriod |-> 0] }

NextRepeat ==
    \/ NextGenerate
    \/ SensorCallAgain
    \/ ConsumptionCallAgain

SpecRepeat == InitOf(Scenarios, ZeroStreams) /\ [][NextRepeat]_vars

(***************************************************************************)
(* The built network on every grid: the run up to the renderings.          *)
(***************************************************************************)
BuiltScenarios ==
    { Scenario(build_simple_water_network, g[1], g[2], g[3]) : g \in Grids }

SpecBuilt == InitWith(BuiltScenarios) /\ [][NextRun]_vars

(***************************************************************************)
(* main.py: the built network, one week from 2023-01-01 at 15 minutes, a   *)
(* leak at J1 from 2023-01-03 10:00 to 2023-01-04 18:00 of severity 0.3,   *)
(* a rendering at 2023-01-03 14:00 and one at 2023-01-02 12:00. The        *)
(* sensor generator takes one step per timestamp, the consumption          *)
(* generator and the injector one step for the whole loop.                 *)
(***************************************************************************)
MainScenario == Scenario(build_simple_water_network, 0, 7 * 1440, 15)

MainInject ==
    /\ pc = "consumption_done"
    /\ InjectBegin("J1", 2 * 1440 + 10 * 60, 3 * 1440 + 18 * 60, Rat(3, 10))

MainRenderLeak ==
    /\ pc = "injected"
    /\ Render(2 * 1440 + 14 * 60)

MainRenderNormal ==
    /\ pc = "rendered"
    /\ render.timestamp = 2 * 1440 + 14 * 60
    /\ Render(1440 + 12 * 60)

NextMain ==
    \/ SensorCall
    \/ SensorTimestamp
    \/ SensorReturn
    \/ ConsumptionCall
    \/ ConsumptionRows
    \/ ConsumptionReturn
    \/ MainInject
    \/ InjectRows
    \/ InjectReturn
    \/ MainRenderLeak
    \/ MainRenderNormal

\* every noise draw at its lower end, at its mean, at its upper end
MainStreams == { [i \in 1..StreamPeriod |-> k] : k \in Levels }

SpecMain == InitOf({ MainScenario }, MainStreams) /\ [][NextMain]_vars

(***************************************************************************)
(* Properties of the generated tables.                                     *)
(***************************************************************************)
\* generate_sensor_data, generate_consumption_data have returned their table
SensorTableReturned ==
    \/ pc \in { "sensor_done", "generate_consumption_data", "consumption_done",
                "inject_leak_event", "injected", "rendered" }
    \/ pc = "raised" /\ err \in { "NetworkXError", "KeyError" }
ConsumptionTableReturned ==
    \/ pc \in { "consumption_done", "inject_leak_event", "injected", "rendered" }
    \/ pc = "raised" /\ err \in { "NetworkXError", "KeyError" }
\* the sensor table is as generate_sensor_data returned it
SensorTableFresh ==
    pc \in { "sensor_done", "generate_consumption_data", "consumption_done" }
        /\ injections = 0

\* { start + k * interval : k >= 0, start + k * interval <= end }
GridSet ==
    { gen_start + k * interval :
        k \in { j \in 0..((gen_end - gen_start) \div interval) :
                    gen_start + j * interval <= gen_end } }
SensorSet == { n \in Nodes(network) : network.attrs[n].type = "Sensor" }
ZoneSet == { n \in Nodes(network) : network.attrs[n].type = "ConsumptionZone" }

\* as many records as pairs, and the records' pairs are all the pairs: each
\* pair has exactly one record and there is no other record
OneRecordPerPair(df, key, times, entities) ==
    /\ Len(df) = Cardinality(times) * Cardinality(entities)
    /\ { << df[r].timestamp, df[r][key] >> : r \in DOMAIN df } = times \X entities

\* C5: the sensor table holds exactly one record per (grid timestamp, Sensor
\* node) pair and nothing else, so (grid timestamps) x (sensors) rows; the
\* consumption table exactly one per (grid timestamp, ConsumptionZone) pair.
C5_OneRecordPerGridPointAndEntity ==
    /\ SensorTableReturned =>
        OneRecordPerPair(sensor_df, "sensor_id", GridSet, SensorSet)
    /\ ConsumptionTableReturned =>
        OneRecordPerPair(consumption_df, "zone_id", GridSet, ZoneSet)

\* both tables of the built network over a grid of three timestamps, the
\* second grid point included
C5_Witness ==
    /\ pc = "consumption_done"
    /\ Cardinality(GridSet) = 3
    /\ Len(sensor_df) = 27
    /\ Len(consumption_df) = 9

\* C6: every value of a generated sensor table is >= 0, every Level value is
\* within [0, reservoir capacity], every generated consumption is >= 0.
C6_GeneratedValuesInRange ==
    /\ SensorTableFresh =>
        \A r \in DOMAIN sensor_df :
            /\ sensor_df[r].value.n >= 0
            /\ (sensor_df[r].sensor_type = "Level" /\ "R1" \in Nodes(network)) =>
                    sensor_df[r].value.n
                        <= network.attrs["R1"].capacity * sensor_df[r].value.d
    /\ ConsumptionTableReturned =>
        \A r \in DOMAIN consumption_df :
            consumption_df[r].consumption_liters_per_sec.n >= 0

\* the clips at work: a level at capacity, a flow and a consumption floored at 0
C6_Witness ==
    /\ pc = "consumption_done"
    /\ \E r \in DOMAIN sensor_df :
        /\ sensor_df[r].sensor_type = "Level"
        /\ sensor_df[r].value = RInt(network.attrs["R1"].capacity)
    /\ \E r \in DOMAIN sensor_df :
        sensor_df[r].sensor_type = "Flow" /\ sensor_df[r].value = RInt(0)
    /\ \E r \in DOMAIN consumption_df :
        consumption_df[r].consumption_liters_per_sec = RInt(0)

\* C7: with start = end the grid is the start alone and each table has one
\* record per sensor (zone); with start > end the grid and the tables are empty.
C7_BoundaryGrids ==
    /\ pc \in { "generate_sensor_data", "generate_consumption_data" } =>
        /\ gen_start = gen_end => time_index = << gen_start >>
        /\ gen_start > gen_end => time_index = << >>
    /\ SensorTableReturned =>
        /\ gen_start = gen_end =>
            /\ Len(sensor_df) = Cardinality(SensorSet)
            /\ \A r \in DOMAIN sensor_df : sensor_df[r].timestamp = gen_start
        /\ gen_start > gen_end => sensor_df = << >>
    /\ ConsumptionTableReturned =>
        /\ gen_start = gen_end =>
            /\ Len(consumption_df) = Cardinality(ZoneSet)
            /\ \A r \in DOMAIN consumption_df :
                consumption_df[r].timestamp = gen_start
        /\ gen_start > gen_end => consumption_df = << >>

\* start = end on the built network: nine sensor records, three zone records
C7_Witness ==
    /\ pc = "consumption_done"
    /\ gen_start = gen_end
    /\ Len(sensor_df) = 9
    /\ Len(consumption_df) = 3

\* the records generate_sensor_data has produced so far, or has returned
GeneratedSoFar ==
    IF pc = "generate_sensor_data" THEN data
    ELSE IF SensorTableFresh THEN sensor_df
    ELSE << >>

\* a sensor outside the Flow, Pressure and Level rules
Uncovered(row) ==
    \/ row.sensor_type \notin { "Flow", "Pressure", "Level" }
    \/ /\ row.sensor_type = "Pressure"
       /\ network.attrs[row.attached_to].type
            \notin { "ConsumptionZone", "Junction", "PumpStation", "Reservoir" }
    \/ row.sensor_type = "Level" /\ row.attached_to # "R1"

\* C4: a sensor whose (sensor_type, attached node) combination no rule covers
\* reads 0.0 at every grid timestamp and generation raises no error, wherever
\* the sensor stands in the node order.
C4_UncoveredSensorsReadZero ==
    /\ err # "UnboundLocalError"
    /\ \A r \in DOMAIN GeneratedSoFar :
        Uncovered(GeneratedSoFar[r]) => GeneratedSoFar[r].value = RInt(0)

\* the iteration just completed computed the base flow of a junction's Flow sensor
JunctionFlowComputed ==
    /\ pc = "generate_sensor_data"
    /\ pos > 0
    /\ Len(data) = pos
    /\ data[pos].sensor_type = "Flow"
    /\ network.attrs[data[pos].attached_to].type = "Junction"

ZoneSuccessors(node) == { z \in ZoneSet : << node, z >> \in network.edges }

RECURSIVE DemandAlong(_, _)
DemandAlong(order, zones) ==
    IF order = << >> THEN 0
    ELSE (IF Head(order) \in zones THEN network.attrs[Head(order)].base_demand ELSE 0)
            + DemandAlong(Tail(order), zones)

SuccessorDemand(node) == DemandAlong(network.order, ZoneSuccessors(node))

\* C10 as stated: the base flow of a junction's Flow sensor is the summed
\* base_demand of its immediate successor zones, and 150 exactly when it has
\* no immediate successor zone.
C10_DefaultOnlyWithoutZones ==
    JunctionFlowComputed =>
        base_flow = << IF ZoneSuccessors(data[pos].attached_to) = {} THEN 150
                       ELSE SuccessorDemand(data[pos].attached_to) >>

\* C10 amended: the base flow is that sum when the sum is positive, and 150
\* otherwise: without successor zones and also when their demands sum to 0.
C10_DefaultUnlessPositiveDemand ==
    JunctionFlowComputed =>
        base_flow = << IF SuccessorDemand(data[pos].attached_to) > 0
                       THEN SuccessorDemand(data[pos].attached_to)
                       ELSE 150 >>

\* a junction whose only successor zone has base_demand 0 was given 150
C10_Witness ==
    /\ JunctionFlowComputed
    /\ ZoneSuccessors(data[pos].attached_to) # {}
    /\ SuccessorDemand(data[pos].attached_to) = 0
    /\ base_flow = << 150 >>

(***************************************************************************)
(* Properties of leak injection, stated where the call is about to return: *)
(* rows is the table as the call received it, sensor_df the table it       *)
(* returns.                                                                *)
(***************************************************************************)
InjectDone == pc = "inject_leak_event" /\ pos = Len(rows)

\* a directed path of at most k edges from a to b
RECURSIVE HasPath(_, _, _)
HasPath(a, b, k) ==
    /\ k > 0
    /\ \E e \in network.edges : e[1] = a /\ (e[2] = b \/ HasPath(e[2], b, k - 1))

GraphAncestors(node) ==
    { a \in Nodes(network) : HasPath(a, node, Cardinality(Nodes(network))) }

InLeakWindow(row) == row.timestamp \in leak.start_time..leak.end_time
AtOrAboveLeak(row) ==
    row.attached_to \in GraphAncestors(leak.leak_node_id) \cup { leak.leak_node_id }

\* C1: inject_leak_event changes a record's value only if its timestamp is in
\* [start_time, end_time] and its attached_to is the leak node or an ancestor
\* of it; every other record, every Level record and every other column is as
\* before the call; a leak at a node with no ancestor and no sensor attached
\* returns the table unchanged.
C1_LeakFrame ==
    InjectDone =>
        /\ Len(sensor_df) = Len(rows)
        /\ \A r \in DOMAIN rows :
            /\ [sensor_df[r] EXCEPT !.value = rows[r].value] = rows[r]
            /\ sensor_df[r].value # rows[r].value =>
                InLeakWindow(rows[r]) /\ AtOrAboveLeak(rows[r])
            /\ rows[r].sensor_type = "Level" => sensor_df[r] = rows[r]
        /\ ( /\ GraphAncestors(leak.leak_node_id) = {}
             /\ \A n \in SensorSet :
                    network.attrs[n].attached_to # leak.leak_node_id )
            => sensor_df = rows

\* a call that changed a record and left alone a record of the leak node
\* outside the window and a record inside the window away from the leak
C1_Witness ==
    /\ InjectDone
    /\ \E r \in DOMAIN rows : sensor_df[r].value # rows[r].value
    /\ \E r \in DOMAIN rows :
        /\ ~InLeakWindow(rows[r])
        /\ rows[r].attached_to = leak.leak_node_id
        /\ rows[r].sensor_type = "Flow"
        /\ rows[r].value.n > 0
    /\ \E r \in DOMAIN rows :
        /\ InLeakWindow(rows[r])
        /\ ~AtOrAboveLeak(rows[r])
        /\ rows[r].sensor_type = "Pressure"

OnePlus(x) == RAdd(RInt(1), x)
Between(lo, x, hi) == RLe(lo, x) /\ RLe(x, hi)

\* C2: on a generated table (severity >= 0), every Flow and every Pressure
\* record in the window and attached to the leak node or an ancestor is
\* rescaled once: Flow to old * f, f in [1 + 0.8 s, 1 + 1.2 s]; Pressure to
\* old * f, f in [1 - 1.2 s, 1 - 0.8 s]; none is skipped.
C2_LeakRescalesEveryQualifyingRecord ==
    (InjectDone /\ injections = 0) =>
        \A r \in DOMAIN rows :
            LET old == rows[r].value
                new == sensor_df[r].value
                s == leak.severity_factor
            IN  (InLeakWindow(rows[r]) /\ AtOrAboveLeak(rows[r])) =>
                    /\ rows[r].sensor_type = "Flow" =>
                        Between(RMul(old, OnePlus(RMul(Rat(8, 10), s))), new,
                                RMul(old, OnePlus(RMul(Rat(12, 10), s))))
                    /\ rows[r].sensor_type = "Pressure" =>
                        Between(RMul(old, OnePlus(RMul(Rat(-12, 10), s))), new,
                                RMul(old, OnePlus(RMul(Rat(-8, 10), s))))

\* a positive-severity call that rescaled a Flow record of the leak node and
\* a Pressure record of an ancestor of it
C2_Witness ==
    /\ InjectDone
    /\ injections = 0
    /\ leak.severity_factor.n > 0
    /\ \E r \in DOMAIN rows :
        /\ rows[r].sensor_type = "Flow"
        /\ rows[r].attached_to = leak.leak_node_id
        /\ InLeakWindow(rows[r])
        /\ RLt(rows[r].value, sensor_df[r].value)
    /\ \E r \in DOMAIN rows :
        /\ rows[r].sensor_type = "Pressure"
        /\ rows[r].attached_to \in GraphAncestors(leak.leak_node_id)
        /\ InLeakWindow(rows[r])
        /\ RLt(sensor_df[r].value, rows[r].value)

\* inject_leak_event was called for a node that is not in the network
CalledWithUnknownNode ==
    leak # NoLeak /\ leak.leak_node_id \notin Nodes(network)

\* C3 as stated: a call with a leak_node_id that is not a node of the network
\* raises no error.
C3_UnknownNodeRaisesNothing == CalledWithUnknownNode => err = ""

\* C3 amended: such a call raises NetworkXError out of the ancestor
\* computation, before any record is modified: the table is left as it was.
C3_UnknownNodeRaises ==
    [][(leak' # leak /\ leak' # NoLeak /\ leak'.leak_node_id \notin Nodes(network))
        => (pc' = "raised" /\ err' = "NetworkXError" /\ sensor_df' = sensor_df)]_vars

\* the call for the unknown node X9 on a non-empty table ended in NetworkXError
C3_Witness ==
    /\ CalledWithUnknownNode
    /\ pc = "raised"
    /\ err = "NetworkXError"
    /\ Len(sensor_df) > 0

(***************************************************************************)
(* Scenario and table properties of the generators.                        *)
(***************************************************************************)
AllLevelWithinCapacity ==
    \A r \in DOMAIN sensor_df :
        /\ sensor_df[r].sensor_type = "Level"
        /\ sensor_df[r].sensor_id = "S_L_R1"
        /\ Between(RInt(0), sensor_df[r].value, RInt(1000000))

\* C8 as stated: one reservoir R1 (capacity 1000000, level 900000) with its
\* Level sensor, 60-minute interval, end = start + 1 day: exactly 24 Level
\* records, each within [0, 1000000].
C8_DayHas24Records ==
    pc = "sensor_done" => (Len(sensor_df) = 24 /\ AllLevelWithinCapacity)

\* C8 amended: exactly 25 Level records (both ends of the day are on the
\* grid), each within [0, 1000000].
C8_DayHas25Records ==
    pc = "sensor_done" => (Len(sensor_df) = 25 /\ AllLevelWithinCapacity)

\* the day's table returned, its last record at start + 1 day, one level
\* held down to the capacity
C8_Witness ==
    /\ pc = "sensor_done"
    /\ Len(sensor_df) = 25
    /\ sensor_df[25].timestamp = gen_start + 1440
    /\ \E r \in DOMAIN sensor_df : sensor_df[r].value = RInt(1000000)

\* the factor table of section 4.2, in tenths
TableTenths(profile, h) ==
    IF profile = "residential"
    THEN CASE h \in 0..5 -> 5 [] h \in 6..8 -> 15 [] h \in 9..16 -> 8
           [] h \in 17..20 -> 18 [] h \in 21..23 -> 7
    ELSE IF profile = "commercial"
    THEN CASE h \in 0..7 -> 2 [] h \in 8..17 -> 15 [] h \in 18..23 -> 4
    ELSE CASE h \in (0..6) \cup (22..23) -> 7 [] h \in 7..21 -> 13

WeekendTenths(profile) == IF profile = "residential" THEN 11 ELSE 7

\* 2023-01-01, day 0, is a Sunday
IsSaturdayOrSunday(t) == ((t \div 1440) % 7) \in { 0, 6 }

ExpectedMultiplier(profile, t) ==
    IF IsSaturdayOrSunday(t)
    THEN Rat(TableTenths(profile, (t % 1440) \div 60) * WeekendTenths(profile), 100)
    ELSE Rat(TableTenths(profile, (t % 1440) \div 60), 10)

ConsumptionRowComputed == pc = "generate_consumption_data" /\ pos > 0

\* C9: for every hour, weekday and profile, the multiplier applied to
\* base_demand before the seasonal factor is the table's bucket value (buckets
\* closed below, open above), times the weekend multiplier on Saturday and
\* Sunday only (0.7 commercial and industrial, 1.1 residential).
C9_DailyFactorFollowsTable ==
    ConsumptionRowComputed =>
        daily_factor =
            ExpectedMultiplier(network.attrs[data[pos].zone_id].demand_profile,
                               data[pos].timestamp)

\* a residential zone at 17:00 on Saturday 2023-01-07: 1.8 * 1.1
C9_Witness ==
    /\ ConsumptionRowComputed
    /\ data[pos].zone_id = "Z1"
    /\ data[pos].timestamp = 6 * 1440 + 17 * 60
    /\ daily_factor = Rat(198, 100)

(***************************************************************************)
(* Properties of the rendering.                                            *)
(***************************************************************************)
Rendered == pc = "rendered"

\* the record is one of the table's, and none of the table's is nearer
IsNearest(rec, df, timestamp) ==
    /\ \E r \in DOMAIN df : df[r] = rec
    /\ \A q \in DOMAIN df :
        Abs(rec.timestamp - timestamp) <= Abs(df[q].timestamp - timestamp)

\* C11: a rendering that finds no record at the requested timestamp uses the
\* record(s) with the nearest timestamp, and a rendering of a table without
\* any record (the one generated for start > end) raises no error and draws
\* nothing.
C11_RenderFallsBackOrReturns ==
    /\ err # "KeyError"
    /\ Rendered =>
        IF sensor_df = << >>
        THEN ~render.drawn
        ELSE /\ render.drawn
             /\ render.current_sensor_data # << >>
             /\ \A i \in DOMAIN render.current_sensor_data :
                  IsNearest(render.current_sensor_data[i], sensor_df,
                            render.timestamp)

(***************************************************************************)
(* Properties of repeated calls.                                           *)
(***************************************************************************)
\* the running generator is about to return, an earlier call of it having
\* returned a table with records
SensorCallRepeated ==
    pc = "generate_sensor_data" /\ pos = LoopLength(sensor_nodes) /\ sensor_df # << >>
ConsumptionCallRepeated ==
    /\ pc = "generate_consumption_data"
    /\ pos = LoopLength(consumption_zones)
    /\ consumption_df # << >>

SensorsAttached(G) ==
    \A s \in Nodes(G) :
        G.attrs[s].type = "Sensor" => G.attrs[s].attached_to \in Nodes(G)

SensorListsConsistent(G) ==
    \A n \in Nodes(G) :
        "sensors" \in DOMAIN G.attrs[n] =>
            \A i \in DOMAIN G.attrs[n].sensors :
                LET s == G.attrs[n].sensors[i]
                IN  /\ s \in Nodes(G)
                    /\ G.attrs[s].type = "Sensor"
                    /\ G.attrs[s].attached_to = n

\* C13: in every state of the run after build_simple_water_network returned
\* (sensor generation, consumption generation, leak injection, rendering) the
\* network is the built one, every Sensor node's attached_to names an existing
\* node, and every node's sensors list holds only Sensor nodes attached to
\* that node.
C13_NetworkStaysWellFormed ==
    /\ network = build_simple_water_network
    /\ SensorsAttached(network)
    /\ SensorListsConsistent(network)

\* a table was generated, injected and rendered, and J1 still lists its two
\* sensors
C13_Witness ==
    /\ Rendered
    /\ render.drawn
    /\ injections > 0
    /\ network.attrs["J1"].sensors = << "S_F_J1", "S_P_J1" >>
    /\ network.attrs["S_F_J1"].attached_to = "J1"

(***************************************************************************)
(* Properties of the injected table.                                       *)
(***************************************************************************)
\* C14: every record of the sensor table has value >= 0, also while and
\* after inject_leak_event is applied to it, for every severity_factor >= 0
\* and any number of injections.
C14_InjectedValuesNonNegative ==
    \A r \in DOMAIN sensor_df : RLe(RInt(0), sensor_df[r].value)

(***************************************************************************)
(* Properties of main.py's run.                                            *)
(***************************************************************************)
\* 2023-01-03 10:00 and 2023-01-04 18:00
MainWindow == (2 * 1440 + 10 * 60)..(3 * 1440 + 18 * 60)

\* a record of one of J1's two sensors inside the leak window
MainLeakRecord(row) ==
    row.sensor_id \in { "S_F_J1", "S_P_J1" } /\ row.timestamp \in MainWindow

\* the records whose value the running injection has changed
ChangedRecords == { r \in DOMAIN rows : sensor_df[r] # rows[r] }

\* the records of J1's two sensors inside the leak window
J1WindowRecords == { r \in DOMAIN rows : MainLeakRecord(rows[r]) }

\* C15: in main.py's run the injection starts on the complete generated table
\* of 6057 records and before any rendering, and every rendering comes after
\* it; the records it rescales are exactly those of S_F_J1 and S_P_J1 at the
\* 129 grid timestamps of the window, 258 records (flow up by 24 to 36 per
\* cent, pressure down by as much), each of them changed unless its value was
\* 0; every record of the seven other sensors is unchanged.
C15_MainLeakChangesJ1Records ==
    /\ pc \notin { "built", "generate_sensor_data", "raised" } => Len(sensor_df) = 6057
    /\ pc = "inject_leak_event" => (Len(rows) = 6057 /\ render = NoRender)
    /\ Rendered => injections = 1
    /\ InjectDone =>
        /\ Cardinality(J1WindowRecords) = 258
        /\ { rows[r].timestamp : r \in J1WindowRecords }
             = { 2 * 1440 + 10 * 60 + 15 * k : k \in 0..128 }
        /\ \A r \in J1WindowRecords :
             LET old == rows[r].value
                 new == sensor_df[r].value
             IN  IF rows[r].sensor_type = "Flow"
                 THEN Between(RMul(old, Rat(124, 100)), new, RMul(old, Rat(136, 100)))
                 ELSE Between(RMul(old, Rat(64, 100)), new, RMul(old, Rat(76, 100)))
        /\ ChangedRecords = { r \in J1WindowRecords : rows[r].value # RInt(0) }
        /\ \A r \in DOMAIN rows :
             rows[r].sensor_id \in { "S_F_Z1", "S_P_Z1", "S_F_Z2", "S_P_Z2",
                                     "S_F_Z3", "S_P_Z3", "S_L_R1" }
                => sensor_df[r] = rows[r]

\* the injection has run over the whole table and changed 258 records: the
\* flow at J1 at 10:00 on 2023-01-03 went up, the pressure at J1 at 18:00 on
\* 2023-01-04 went down
C15_Witness ==
    /\ InjectDone
    /\ leak.leak_node_id = "J1"
    /\ Len(rows) = 6057
    /\ Cardinality(ChangedRecords) = 258
    /\ \E r \in DOMAIN rows :
        /\ rows[r].sensor_id = "S_F_J1"
        /\ rows[r].timestamp = 2 * 1440 + 10 * 60
        /\ RLt(rows[r].value, sensor_df[r].value)
    /\ \E r \in DOMAIN rows :
        /\ rows[r].sensor_id = "S_P_J1"
        /\ rows[r].timestamp = 3 * 1440 + 18 * 60
        /\ RLt(sensor_df[r].value, rows[r].value)

=============================================================================
